---- MODULE Spec2Model ----
(***************************************************************************)
(* vodtool: a command-line tool that opens a media container, seeks to    *)
(* the start of a segment and writes the first decoded video frame at or   *)
(* after the segment's start as a PGM image (src/vodtool.c), together with *)
(* the earlier "segment" variant of the same tool (src/unnamed/part_000,   *)
(* second program).                                                        *)
(*                                                                         *)
(* The media framework (demuxer, decoder, seek) is the environment: the    *)
(* container is a finite sequence of packets, each carrying the answers    *)
(* the decoder gives when the packet is sent to it.                        *)
(***************************************************************************)
EXTENDS Integers, Sequences, FiniteSets, TLC

VARIABLES
    input,            \* the container and what the framework answers about it
    plan,             \* the invocations to run, in order: program and command line
    run,              \* index in plan of the invocation that is running
    results,          \* exit status and output file of the invocations that ended
    pc,               \* position of main
    duration, timescale, segment,      \* main's locals
    start_timestamp, end_timestamp,
    ret,
    packet,           \* AVPacket packet: stream_index and the unit it holds
    frame,            \* AVFrame* frame: the last frame the decoder returned
    pos,              \* number of packets the demuxer has handed out or skipped
    seek_ts,          \* timestamp the seek was requested for (NoSeek: none yet)
    earlier,          \* pts of the frames the decoder returned before `frame`
    sent,             \* units sent to the decoder (0: a blank packet)
    eof,              \* a read has failed in this run
    read_after_eof,   \* a read was attempted after a failed one
    last,             \* what the last step of the scan loop did
    file,             \* bytes of test.pgm (NoFile: never opened)
    status            \* exit status (NotExited while running)

vars == <<input, plan, run, results, pc, duration, timescale, segment,
          start_timestamp, end_timestamp, ret, packet, frame, pos, seek_ts,
          earlier, sent, eof, read_after_eof, last, file, status>>

-----------------------------------------------------------------------------
(* Bounds of the model *)

MaxLen == 3        \* packets in a container
MaxPts == 2        \* largest presentation timestamp, in stream time base ticks
MaxWidth == 2      \* picture geometry drawn for the image writer
MaxHeight == 2
MaxPad == 1        \* linesize - width

-----------------------------------------------------------------------------
(* The framework's constants *)

AV_TIME_BASE == 1000000
\* the least value of the model's timestamps; stands for the framework's INT64_MIN
INT64_MIN == -2147483647
AV_NOPTS_VALUE == INT64_MIN
EAGAIN == 11
EIO == 5
AVERROR(e) == -e
AVERROR_EOF == -541478725

\* seek_ts holds the requested timestamp as a one-element sequence
NoSeek == <<>>
\* no byte is negative
NoFile == <<-1>>
NotExited == 0 - 1
NoFrame == [pts |-> AV_NOPTS_VALUE, width |-> 0, height |-> 0, linesize |-> 0, data |-> <<>>]
BlankPacket == [stream_index |-> 0, data |-> 0]

-----------------------------------------------------------------------------
(* Pure functions *)

IsDigit(c) == c \in {"0", "1", "2", "3", "4", "5", "6", "7", "8", "9"}

DigitVal(c) ==
    CASE c = "0" -> 0 [] c = "1" -> 1 [] c = "2" -> 2 [] c = "3" -> 3 [] c = "4" -> 4
      [] c = "5" -> 5 [] c = "6" -> 6 [] c = "7" -> 7 [] c = "8" -> 8 [] c = "9" -> 9

RECURSIVE AtoiDigits(_, _)
AtoiDigits(s, acc) ==
    IF s = <<>> \/ ~IsDigit(Head(s)) THEN acc
    ELSE AtoiDigits(Tail(s), acc * 10 + DigitVal(Head(s)))

\* atoi: optional sign, then the leading digits; 0 when there are none
atoi(s) ==
    IF s # <<>> /\ Head(s) = "-" THEN 0 - AtoiDigits(Tail(s), 0)
    ELSE IF s # <<>> /\ Head(s) = "+" THEN AtoiDigits(Tail(s), 0)
    ELSE AtoiDigits(s, 0)

\* av_rescale_rnd(a, b, c, AV_ROUND_NEAR_INF): a * b / c rounded to nearest,
\* halves away from zero; INT64_MIN when c <= 0 or b < 0
RECURSIVE av_rescale_rnd(_, _, _)
av_rescale_rnd(a, b, c) ==
    IF c <= 0 \/ b < 0 THEN INT64_MIN
    ELSE IF a < 0 THEN 0 - av_rescale_rnd(0 - a, b, c)
    ELSE (a * b + c \div 2) \div c

\* av_rescale_q(a, bq, cq) = a * bq / cq
av_rescale_q(a, bq, cq) == av_rescale_rnd(a, bq.num * cq.den, bq.den * cq.num)

\* av_compare_ts: -1, 0 or 1 as ts_a * tb_a is below, at or above ts_b * tb_b (exact)
av_compare_ts(ts_a, tb_a, ts_b, tb_b) ==
    LET a == tb_a.num * tb_b.den
        b == tb_b.num * tb_a.den
    IN  IF ts_a * a > ts_b * b THEN 1 ELSE IF ts_a * a < ts_b * b THEN -1 ELSE 0

AV_TIME_BASE_Q == [num |-> 1, den |-> AV_TIME_BASE]

\* to_av_timebase in plain integer arithmetic, which truncates
to_av_timebase_truncating(timestamp, timebase) ==
    IF timebase.den <= 0 \/ timebase.num < 0 THEN INT64_MIN
    ELSE (timestamp * timebase.num * AV_TIME_BASE) \div timebase.den

\* vodtool.c: to_av_timebase
to_av_timebase(timestamp, timebase) == av_rescale_q(timestamp, timebase, AV_TIME_BASE_Q)

\* the segment variant: to_av_timebase, with the operands the other way round
seg_to_av_timebase(timestamp, timebase) ==
    av_rescale_q(timestamp, [num |-> AV_TIME_BASE, den |-> 1], timebase)

\* printf("%d") of a non-negative int, as ASCII codes
RECURSIVE Itoa(_)
Itoa(n) == IF n < 10 THEN <<48 + n>> ELSE Itoa(n \div 10) \o <<48 + (n % 10)>>

\* the rows read as if the buffer had no stride padding
RECURSIVE PgmRowsPacked(_, _, _, _, _)
PgmRowsPacked(buf, wrap, xsize, ysize, i) ==
    IF i < ysize
    THEN [j \in 1..xsize |-> buf[i * xsize + j]] \o PgmRowsPacked(buf, wrap, xsize, ysize, i + 1)
    ELSE <<>>

RECURSIVE PgmRows(_, _, _, _, _)
PgmRows(buf, wrap, xsize, ysize, i) ==
    IF i < ysize
    THEN [j \in 1..xsize |-> buf[i * wrap + j]] \o PgmRows(buf, wrap, xsize, ysize, i + 1)
    ELSE <<>>

\* pgm_save: the bytes of the file it writes
pgm_save(buf, wrap, xsize, ysize) ==
    <<80, 53, 10>> \o Itoa(xsize) \o <<32>> \o Itoa(ysize) \o <<10>> \o Itoa(255) \o <<10>>
        \o PgmRows(buf, wrap, xsize, ysize, 0)

-----------------------------------------------------------------------------
(* The environment: container, demuxer, decoder *)

best_video_stream == input.video_index
best_audio_stream == input.audio_index
container == input.container

StreamIndexOf(p) == IF p.type = "video" THEN best_video_stream ELSE best_audio_stream

\* what the decoder answers to the unit a packet holds: a packet of the
\* container, or (data = 0) a blank packet, which the decoder takes as a flush
Unit(pkt) == IF pkt.data = 0 THEN input.flush ELSE container[pkt.data]

\* avformat_seek_file(ctx, -1, min_ts, ts, max_ts, 0): the position of the video
\* packet whose timestamp is closest to ts within [min_ts, max_ts] (the first
\* such packet when several share it), -1 when there is none
SeekPoints(min_ts, max_ts) ==
    {k \in 1..Len(container) :
        /\ container[k].type = "video"
        /\ container[k].pts # AV_NOPTS_VALUE
        /\ av_compare_ts(container[k].pts, input.time_base, min_ts, AV_TIME_BASE_Q) >= 0
        /\ av_compare_ts(container[k].pts, input.time_base, max_ts, AV_TIME_BASE_Q) <= 0}

avformat_seek_file(min_ts, ts, max_ts) ==
    LET pts == SeekPoints(min_ts, max_ts)
    IN  IF min_ts > ts \/ max_ts < ts \/ pts = {} \/ input.fault = "seek" THEN -1
        ELSE (CHOOSE k \in pts :
                \A m \in pts : \/ container[m].pts < container[k].pts
                               \/ (container[m].pts = container[k].pts /\ m >= k)) - 1

-----------------------------------------------------------------------------
(* main *)

Exit(code) ==
    /\ pc' = "exit"
    /\ status' = code

\* the getopt_long loop of vodtool.c; usage() exits at once
RECURSIVE getopt_loop(_, _)
getopt_loop(opts, acc) ==
    IF opts = <<>> THEN acc
    ELSE LET o == Head(opts) IN
         CASE o.opt = "d" -> getopt_loop(Tail(opts), [acc EXCEPT !.duration = atoi(o.arg)])
           [] o.opt = "t" -> getopt_loop(Tail(opts), [acc EXCEPT !.timescale = atoi(o.arg)])
           [] o.opt = "s" -> getopt_loop(Tail(opts), [acc EXCEPT !.segment = atoi(o.arg)])
           [] OTHER -> [acc EXCEPT !.usage = TRUE]

Prog == plan[run].prog
Cmd == plan[run].cmd

\* the initial values of main's locals
Locals(prog) ==
    IF prog = "vodtool"
    THEN [duration |-> 5, timescale |-> 1, segment |-> 0]
    ELSE [duration |-> 5, timescale |-> 1, segment |-> 12]

VodParseArgs ==
    /\ pc = "start"
    /\ Prog = "vodtool"
    /\ LET o == getopt_loop(Cmd.opts, [duration |-> duration, timescale |-> timescale,
                                       segment |-> segment, usage |-> FALSE])
       IN  IF o.usage \/ Cmd.infiles # 1
           THEN /\ Exit(1)
                /\ UNCHANGED <<duration, timescale, segment>>
           ELSE /\ duration' = o.duration
                /\ timescale' = o.timescale
                /\ segment' = o.segment
                /\ pc' = "open"
                /\ UNCHANGED status
    /\ UNCHANGED <<input, plan, run, results, start_timestamp, end_timestamp, ret,
                   packet, frame, pos, seek_ts, earlier, sent, eof, read_after_eof,
                   last, file>>

\* argc of a command line: the program name, each option (with its argument), the files
Argc(cmd) == 1 + Len(cmd.opts) + Cardinality({i \in 1..Len(cmd.opts) : cmd.opts[i].arg # <<>>})
               + cmd.infiles

SegParseArgs ==
    /\ pc = "start"
    /\ Prog = "segment"
    /\ IF Argc(Cmd) # 2
       THEN Exit(1)
       ELSE /\ pc' = "open"
            /\ UNCHANGED status
    /\ UNCHANGED <<input, plan, run, results, duration, timescale, segment,
                   start_timestamp, end_timestamp, ret, packet, frame, pos, seek_ts,
                   earlier, sent, eof, read_after_eof, last, file>>

\* open_input_file, find_best_stream (video, audio), avcodec_find_decoder,
\* avcodec_parameters_to_context, avcodec_open2
OpenInput ==
    /\ pc = "open"
    /\ IF input.fault \in {"open", "stream_info", "no_video", "no_audio", "no_decoder",
                           "parameters", "codec_open"}
       THEN /\ Exit(1)
            /\ UNCHANGED ret
       ELSE /\ ret' = 0
            /\ pc' = "seek"
            /\ UNCHANGED status
    /\ UNCHANGED <<input, plan, run, results, duration, timescale, segment,
                   start_timestamp, end_timestamp, packet, frame, pos, seek_ts,
                   earlier, sent, eof, read_after_eof, last, file>>

\* seek_to_timestamp(input_ctx, dec_ctx, start)
SeekTo(start, end) ==
    /\ start_timestamp' = start
    /\ end_timestamp' = end
    /\ seek_ts' = <<start>>
    /\ LET r == avformat_seek_file(0, start, start)
       IN  IF r < 0
           THEN /\ Exit(1)
                /\ UNCHANGED pos
           ELSE /\ pos' = r
                /\ pc' = "loop"
                /\ UNCHANGED status
    /\ UNCHANGED <<input, plan, run, results, duration, timescale, segment, ret,
                   packet, frame, earlier, sent, eof, read_after_eof, last, file>>

VodSeek ==
    /\ pc = "seek"
    /\ Prog = "vodtool"
    /\ SeekTo(to_av_timebase(segment, [num |-> duration, den |-> timescale]),
              to_av_timebase(segment + 1, [num |-> duration, den |-> timescale]))

SegSeek ==
    /\ pc = "seek"
    /\ Prog = "segment"
    /\ SeekTo(seg_to_av_timebase(segment, [num |-> timescale, den |-> duration]),
              seg_to_av_timebase(segment + 1, [num |-> timescale, den |-> duration]))

\* while (ret >= 0); falling off the end of main returns 0
LoopTest ==
    /\ pc = "loop"
    /\ IF ret >= 0
       THEN /\ pc' = "read"
            /\ UNCHANGED status
       ELSE Exit(0)
    /\ UNCHANGED <<input, plan, run, results, duration, timescale, segment,
                   start_timestamp, end_timestamp, ret, packet, frame, pos, seek_ts,
                   earlier, sent, eof, read_after_eof, last, file>>

\* ret = av_read_frame(input_ctx, &packet); a packet of another stream is
\* released and the loop continues. A failed read leaves the packet blank.
ReadFrame ==
    /\ pc = "read"
    /\ LET ok == pos < Len(container)
           got == IF ok
                  THEN [stream_index |-> StreamIndexOf(container[pos + 1]), data |-> pos + 1]
                  ELSE BlankPacket
       IN  /\ ret' = IF ok THEN 0 ELSE AVERROR_EOF
           /\ pos' = IF ok THEN pos + 1 ELSE pos
           /\ eof' = (eof \/ ~ok)
           /\ read_after_eof' = (read_after_eof \/ eof)
           /\ IF got.stream_index # best_video_stream
              THEN /\ packet' = BlankPacket
                   /\ pc' = "loop"
                   /\ last' = "discard"
              ELSE /\ packet' = got
                   /\ pc' = "send"
                   /\ last' = "read"
    /\ UNCHANGED <<input, plan, run, results, duration, timescale, segment,
                   start_timestamp, end_timestamp, frame, seek_ts, earlier, sent,
                   file, status>>

\* ret = avcodec_send_packet(dec_ctx, &packet)
SendPacket ==
    /\ pc = "send"
    /\ ret' = Unit(packet).send
    /\ sent' = sent \cup {packet.data}
    /\ last' = "send"
    /\ IF ret' < 0
       THEN Exit(1)
       ELSE /\ pc' = "receive"
            /\ UNCHANGED status
    /\ UNCHANGED <<input, plan, run, results, duration, timescale, segment,
                   start_timestamp, end_timestamp, packet, frame, pos, seek_ts,
                   earlier, eof, read_after_eof, file>>

\* the frame avcodec_receive_frame stores for the unit
FrameOf(u) == [pts |-> u.pts, width |-> u.picture.width, height |-> u.picture.height,
               linesize |-> u.picture.linesize, data |-> u.picture.data]

\* the frame's timestamp rescaled (rounded) to the global time base, then compared
FrameQualifiesRescaled(f, start) == to_av_timebase(f.pts, input.time_base) >= start

\* av_compare_ts(frame->pts, stream time base, start_timestamp, 1/AV_TIME_BASE) >= 0
FrameQualifies(f, start) ==
    av_compare_ts(f.pts, input.time_base, start, AV_TIME_BASE_Q) >= 0

\* no result is taken as "needs more input"
NeedsMoreInputNever(r) == FALSE

\* ret == AVERROR(EAGAIN): the decoder needs more input
NeedsMoreInput(r) == r = AVERROR(EAGAIN)

\* the first frame is written whatever its timestamp
SaveFirstFrame(f) == TRUE

\* vodtool.c writes the frame when it is at or after the segment's start
VodSave(f) == FrameQualifies(f, start_timestamp)

\* the segment variant writes the first frame it gets
SegSave(f) == TRUE

\* ret = avcodec_receive_frame(dec_ctx, frame) and what follows it in the loop
ReceiveFrame ==
    /\ pc = "receive"
    /\ LET r == Unit(packet).receive
           f == FrameOf(Unit(packet))
       IN  IF NeedsMoreInput(r)
           THEN /\ ret' = 0
                /\ packet' = BlankPacket
                /\ pc' = "loop"
                /\ last' = "again"
                /\ UNCHANGED <<frame, earlier, file, status>>
           ELSE IF r < 0
           THEN /\ ret' = r
                /\ last' = "receive_error"
                /\ Exit(1)
                /\ UNCHANGED <<packet, frame, earlier, file>>
           ELSE /\ ret' = r
                /\ frame' = f
                /\ earlier' = IF frame = NoFrame THEN earlier ELSE earlier \cup {frame.pts}
                /\ IF (IF Prog = "vodtool" THEN VodSave(f) ELSE SegSave(f))
                   THEN /\ file' = pgm_save(f.data, f.linesize, f.width, f.height)
                        /\ last' = "save"
                        /\ Exit(0)
                        /\ UNCHANGED packet
                   ELSE /\ packet' = BlankPacket
                        /\ pc' = "loop"
                        /\ last' = "skip"
                        /\ UNCHANGED <<file, status>>
    /\ UNCHANGED <<input, plan, run, results, duration, timescale, segment,
                   start_timestamp, end_timestamp, pos, seek_ts, sent, eof,
                   read_after_eof>>

VodReceiveFrame ==
    /\ Prog = "vodtool"
    /\ ReceiveFrame

SegReceiveFrame ==
    /\ Prog = "segment"
    /\ ReceiveFrame

\* the next invocation of the plan starts, on the same container
NextRun ==
    /\ pc = "exit"
    /\ run < Len(plan)
    /\ results' = Append(results, [status |-> status, file |-> file,
                                   pts |-> frame.pts, start |-> start_timestamp,
                                   end |-> end_timestamp, seek |-> seek_ts])
    /\ run' = run + 1
    /\ pc' = "start"
    /\ duration' = Locals(plan[run + 1].prog).duration
    /\ timescale' = Locals(plan[run + 1].prog).timescale
    /\ segment' = Locals(plan[run + 1].prog).segment
    /\ start_timestamp' = 0
    /\ end_timestamp' = 0
    /\ ret' = 0
    /\ packet' = BlankPacket
    /\ frame' = NoFrame
    /\ pos' = 0
    /\ seek_ts' = NoSeek
    /\ earlier' = {}
    /\ sent' = {}
    /\ eof' = FALSE
    /\ read_after_eof' = FALSE
    /\ last' = "none"
    /\ file' = NoFile
    /\ status' = NotExited
    /\ UNCHANGED <<input, plan>>

-----------------------------------------------------------------------------
(* Inputs *)

Picture(w, h, wrap, data) == [width |-> w, height |-> h, linesize |-> wrap, data |-> data]
NoPicture == Picture(0, 0, 0, <<>>)
\* a one-pixel picture with one byte of stride padding
SmallPicture == Picture(1, 1, 2, <<7, 9>>)

\* pictures of every geometry whose bytes all differ: byte k is (base + k) mod 256
PixelBases == {0, 100, 250}
Pictures ==
    {Picture(g[1], g[2], g[1] + g[3], [k \in 1..((g[1] + g[3]) * g[2]) |-> (g[4] + k) % 256]) :
        g \in ((1..MaxWidth) \cup {12}) \X (1..MaxHeight) \X (0..MaxPad) \X PixelBases}

AudioPacket == [type |-> "audio", send |-> 0, receive |-> 0, pts |-> AV_NOPTS_VALUE,
                picture |-> NoPicture]
FramePacket(p, pic) == [type |-> "video", send |-> 0, receive |-> 0, pts |-> p, picture |-> pic]
VideoPacket(s, r) == [type |-> "video", send |-> s, receive |-> r, pts |-> AV_NOPTS_VALUE,
                      picture |-> NoPicture]

PacketKinds ==
    {AudioPacket} \cup {FramePacket(p, SmallPicture) : p \in 0..MaxPts}
        \cup {VideoPacket(0, AVERROR(EAGAIN)), VideoPacket(0, AVERROR(EIO)),
              VideoPacket(AVERROR(EIO), 0), VideoPacket(AVERROR(EAGAIN), 0)}

\* what the decoder answers to a blank packet
FlushKinds ==
    {VideoPacket(0, AVERROR(EAGAIN)), VideoPacket(0, AVERROR_EOF),
     VideoPacket(AVERROR_EOF, 0), FramePacket(MaxPts, SmallPicture)}

Input(c, v, tb, fault, flush) ==
    [container |-> c, video_index |-> v, audio_index |-> 1 - v, time_base |-> tb,
     fault |-> fault, flush |-> flush]

Faults == {"open", "stream_info", "no_video", "no_audio", "no_decoder", "parameters",
           "codec_open", "seek"}

Third == [num |-> 1, den |-> 3]

\* the answer to a blank packet where none is ever sent
NoAnswer == VideoPacket(0, AVERROR(EAGAIN))

Opt(o, a) == [opt |-> o, arg |-> a]
CmdLine(opts, n) == [opts |-> opts, infiles |-> n]
Invocation(prog, cmd) == [prog |-> prog, cmd |-> cmd]

\* vodtool -d D -t T -s S infile
Dts(d, t, s) == CmdLine(<<Opt("d", d), Opt("t", t), Opt("s", s)>>, 1)

ScanCmds ==
    {Dts(d, <<"3">>, s) : d \in {<<"1">>, <<"2">>}, s \in {<<"0">>, <<"1">>}}
      \cup {Dts(<<"5">>, <<"1">>, <<"1", "2">>)}
      \cup {CmdLine(<<Opt("h", <<>>)>>, 1), CmdLine(<<>>, 0)}

\* a plan and an input: every container of at most n packets of `kinds`, with
\* the video stream at index 1, or at index 0 with each of the answers to a
\* blank packet; every fault on the containers of at most one packet
InitWith(plans, n, kinds, tb, flushes) ==
    /\ plan \in plans
    /\ \E k \in 0..n : \E c \in [1..k -> kinds] : \E v \in {0, 1} :
       \E ft \in {"none"} \cup Faults :
          /\ ft # "none" => k <= 1
          /\ input \in IF v = 0 /\ ft = "none"
                        THEN {Input(c, v, tb, ft, fl) : fl \in flushes}
                        ELSE {Input(c, v, tb, ft, NoAnswer)}
    /\ run = 1
    /\ results = <<>>
    /\ pc = "start"
    /\ duration = Locals(plan[1].prog).duration
    /\ timescale = Locals(plan[1].prog).timescale
    /\ segment = Locals(plan[1].prog).segment
    /\ start_timestamp = 0
    /\ end_timestamp = 0
    /\ ret = 0
    /\ packet = BlankPacket
    /\ frame = NoFrame
    /\ pos = 0
    /\ seek_ts = NoSeek
    /\ earlier = {}
    /\ sent = {}
    /\ eof = FALSE
    /\ read_after_eof = FALSE
    /\ last = "none"
    /\ file = NoFile
    /\ status = NotExited

\* one run of vodtool.c
Init == InitWith({<<Invocation("vodtool", c)>> : c \in ScanCmds},
                 MaxLen, PacketKinds, Third, FlushKinds)

Next ==
    \/ VodParseArgs
    \/ OpenInput
    \/ VodSeek
    \/ LoopTest
    \/ ReadFrame
    \/ SendPacket
    \/ VodReceiveFrame

Spec == Init /\ [][Next]_vars

\* one run of vodtool.c under the fairness of a running process: main takes its
\* next step as long as it has one
FairSpec == Init /\ [][Next]_vars /\ WF_vars(Next)

\* one run of vodtool.c over many command lines
ArgTokens == {<<"0">>, <<"1">>, <<"2">>, <<"5">>, <<"1", "2">>, <<"-", "1">>, <<"x">>, <<"2", "x">>}

ArgsCmds ==
    {Dts(d, t, s) : d \in {<<"2">>, <<"5">>, <<"0">>, <<"x">>, <<"-", "1">>},
                    t \in {<<"1">>, <<"3">>, <<"0">>, <<"x">>},
                    s \in {<<"0">>, <<"1">>, <<"1", "2">>, <<"-", "1">>, <<"2", "x">>}}
      \cup {CmdLine(<<Opt(o, a)>>, 1) : o \in {"d", "t", "s"}, a \in ArgTokens}
      \cup {CmdLine(<<Opt(o, <<>>)>>, n) : o \in {"h", "?"}, n \in {0, 1}}
      \cup {CmdLine(<<>>, n) : n \in {0, 1, 2}}

\* segment s and then s + 1 with the same duration and timescale
ArgsPairs ==
    {<<Invocation("vodtool", Dts(d, t, s[1])), Invocation("vodtool", Dts(d, t, s[2]))>> :
        d \in {<<"2">>, <<"5">>}, t \in {<<"1">>, <<"3">>},
        s \in {<<<<"0">>, <<"1">>>>, <<<<"1">>, <<"2">>>>, <<<<"1", "2">>, <<"1", "3">>>>}}

ArgsInit == InitWith({<<Invocation("vodtool", c)>> : c \in ArgsCmds} \cup ArgsPairs,
                     1, PacketKinds, Third, FlushKinds)

RerunNext == Next \/ NextRun

ArgsSpec == ArgsInit /\ [][RerunNext]_vars

\* two runs of vodtool.c on the same container, for segment s and then s + 1,
\* with the same duration and timescale 1
TwoTicks == [num |-> 2, den |-> 1]

TwoPlans ==
    {<<Invocation("vodtool", Dts(<<"1">>, <<"1">>, s[1])),
       Invocation("vodtool", Dts(<<"1">>, <<"1">>, s[2]))>> :
        s \in {<<<<"0">>, <<"1">>>>, <<<<"1">>, <<"2">>>>, <<<<"2">>, <<"3">>>>}}

\* the decoder holds no frame back: it answers a flush with end of stream
TwoInit == InitWith(TwoPlans, MaxLen, PacketKinds, TwoTicks, {VideoPacket(0, AVERROR_EOF)})

TwoSpec == TwoInit /\ [][RerunNext]_vars

\* vodtool.c with -d 5 -t 1 -s 12, then the segment variant, on the same container
ThirtySeconds == [num |-> 30, den |-> 1]

SegPlans ==
    {<<Invocation("vodtool", CmdLine(<<Opt("d", <<"5">>), Opt("t", <<"1">>),
                                       Opt("s", <<"1", "2">>)>>, n)),
       Invocation("segment", CmdLine(<<>>, n))>> : n \in {0, 1}}

SegInit == InitWith(SegPlans, MaxLen, PacketKinds, ThirtySeconds, FlushKinds)

SegNext == Next \/ SegParseArgs \/ SegSeek \/ SegReceiveFrame \/ NextRun

SegSpec == SegInit /\ [][SegNext]_vars

\* one run of vodtool.c on a container of one frame, over many pictures
PgmInit ==
    InitWith({<<Invocation("vodtool", CmdLine(<<>>, n))>> : n \in {0, 1}},
             1, {FramePacket(0, pic) : pic \in Pictures}, Third, FlushKinds)

PgmSpec == PgmInit /\ [][Next]_vars

-----------------------------------------------------------------------------
(* Properties *)

\* timestamp p of the video stream is at or after ts of the global time base (exact)
AtOrAfter(p, ts) == p * input.time_base.num * AV_TIME_BASE >= ts * input.time_base.den

\* C1: when the output image is written, the frame written is at or after the
\* segment's start and every frame the decoder returned before it in the run
\* was before the start.
EarliestQualifyingFrame ==
    file # NoFile =>
        /\ AtOrAfter(frame.pts, start_timestamp)
        /\ \A p \in earlier : ~AtOrAfter(p, start_timestamp)

SavedAfterSkippedFrame == file # NoFile /\ earlier # {} /\ last = "save"

\* C2: a run ends with status 0 exactly when it has written the output image,
\* and with status 1 otherwise.
ExitStatusMatchesOutput ==
    pc = "exit" =>
        /\ status \in {0, 1}
        /\ (status = 0 <=> file # NoFile)

\* C3: every run on a finite container ends.
ScanTerminates == <>(pc = "exit")

\* C4: for a valid segment descriptor the start and end timestamps are
\* segment * duration / timescale and (segment + 1) * duration / timescale in
\* microseconds, rounded to nearest; start <= end; the seek is requested for
\* start; and the end of segment s is the start of segment s + 1.
ValidDescriptor == segment >= 0 /\ duration > 0 /\ timescale > 0

Nearest(r, n, d) == 2 * (r * d - n) <= d /\ 2 * (n - r * d) <= d

SegmentTimestamps ==
    (seek_ts # NoSeek /\ ValidDescriptor) =>
        /\ Nearest(start_timestamp, segment * duration * AV_TIME_BASE, timescale)
        /\ Nearest(end_timestamp, (segment + 1) * duration * AV_TIME_BASE, timescale)
        /\ start_timestamp <= end_timestamp
        /\ seek_ts = <<start_timestamp>>
        /\ (run = 2 /\ results[1].seek # NoSeek) => results[1].end = start_timestamp

RoundedSegmentStart ==
    /\ run = 2
    /\ seek_ts # NoSeek
    /\ results[1].seek # NoSeek
    /\ ValidDescriptor
    /\ start_timestamp * timescale # segment * duration * AV_TIME_BASE

IsNumber(tok) ==
    LET digits == IF tok # <<>> /\ Head(tok) = "-" THEN Tail(tok) ELSE tok
    IN  digits # <<>> /\ \A i \in 1..Len(digits) : IsDigit(digits[i])

Malformed(cmd) ==
    \/ cmd.infiles # 1
    \/ \E i \in 1..Len(cmd.opts) :
          LET o == cmd.opts[i] IN
          \/ o.opt \notin {"d", "t", "s"}
          \/ ~IsNumber(o.arg)
          \/ (o.opt \in {"d", "t"} /\ atoi(o.arg) <= 0)
          \/ (o.opt = "s" /\ atoi(o.arg) < 0)

MalformedArgumentsAreFatal ==
    Malformed(Cmd) =>
        /\ pc \in {"start", "exit"}
        /\ pc = "exit" => status = 1
        /\ seek_ts = NoSeek
        /\ sent = {}
        /\ file = NoFile

\* the decimal digits of a number below 100, as character codes
Decimal(n) == IF n < 10 THEN <<48 + n>> ELSE <<48 + (n \div 10), 48 + (n % 10)>>

\* C7: the file written for a frame of width w, height h and stride wrap is the
\* header "P5\n<w> <h>\n255\n" followed by exactly w * h bytes, row by row, the
\* w leading bytes of each stride; padding bytes are not written.
PgmFileLayout ==
    file # NoFile =>
        LET w == frame.width
            h == frame.height
            header == <<80, 53, 10>> \o Decimal(w) \o <<32>> \o Decimal(h)
                          \o <<10, 50, 53, 53, 10>>
            n == Len(header)
        IN  /\ w < 100 /\ h < 100
            /\ Len(file) = n + w * h
            /\ SubSeq(file, 1, n) = header
            /\ \A i \in 0..(h - 1) : \A j \in 1..w :
                    file[n + i * w + j] = frame.data[i * frame.linesize + j]

PaddedRowsWritten ==
    file # NoFile /\ frame.linesize > frame.width /\ frame.height >= 2 /\ frame.width >= 2

\* C8: when receiving a frame answers "needs more input" the run goes on: it
\* does not exit, writes nothing, releases the packet and returns to the loop
\* test with ret >= 0, so the next read follows; every other negative answer
\* to sending a packet or receiving a frame ends the run with status 1.
TryAgainContinues ==
    [][/\ (pc = "receive" /\ Unit(packet).receive = AVERROR(EAGAIN)) =>
            (pc' = "loop" /\ ret' >= 0 /\ status' = NotExited /\ file' = file
                /\ packet' = BlankPacket)
       /\ (pc = "receive" /\ Unit(packet).receive < 0
              /\ Unit(packet).receive # AVERROR(EAGAIN)) =>
            (pc' = "exit" /\ status' = 1 /\ file' = file)
       /\ (pc = "send" /\ Unit(packet).send < 0) =>
            (pc' = "exit" /\ status' = 1 /\ file' = file)
       /\ (pc = "loop" /\ last = "again") => pc' = "read"]_vars

ReadAfterTryAgain == last = "again" /\ pc = "read" /\ file = NoFile

\* C9: after a failed read nothing is sent to the decoder and nothing is read
\* again; every unit sent to the decoder is a packet of the video stream that
\* was read.
ReadFailureEndsScan ==
    /\ ~read_after_eof
    /\ eof => pc \notin {"send", "receive"}
    /\ 0 \notin sent
    /\ \A k \in sent : k \in 1..pos /\ container[k].type = "video"

\* C10: on the same container and with duration 5, timescale 1, segment 12,
\* the segment variant computes the timestamps vodtool.c computes, seeks to
\* the same timestamp and ends as vodtool.c does: same status, same file.
VariantsAgree ==
    (run = 2 /\ pc = "exit") =>
        /\ seek_ts = results[1].seek
        /\ seek_ts # NoSeek =>
              (start_timestamp = results[1].start /\ end_timestamp = results[1].end)
        /\ status = results[1].status
        /\ file = results[1].file
        /\ file # NoFile => frame.pts = results[1].pts

====
